---- MODULE Spec2Model ----
(***************************************************************************)
(* Model of the token-time-oracle edge functions:                          *)
(*   supabase/functions/price    - price resolution (cache, interpolation, *)
(*                                 external fetch with write-back)         *)
(*   supabase/functions/schedule - backfill scheduling and the background  *)
(*                                 chunk loop                              *)
(*   the token_prices / price_fetch_jobs tables of the SQL migration       *)
(*                                                                         *)
(* Units.  Timestamps are integer seconds, the clock is integer            *)
(* milliseconds.  A price as stored or returned is an integer number of    *)
(* 1e-8 units (DECIMAL(20, 8), toFixed(8)).  A price as delivered by the   *)
(* external source is an integer number of 1e-9 units, one digit finer, so *)
(* that the rounding to 8 decimals is a real conversion.                   *)
(***************************************************************************)
EXTENDS Integers, Sequences, FiniteSets, TLC

(***************************************************************************)
(* Bounds of the model                                                     *)
(***************************************************************************)
\* requests served in one run, price and schedule requests together
MaxRequests == 3

\* schedule requests among them
MaxScheduleCalls == 2

\* clock steps in one run
MaxTicks == 1

\* the clock at start: day 12, 50000 s into the day
StartMs == ((12 * 86400) + 50000) * 1000

\* length of a clock step (milliseconds): half a day
TickMs == 12 * 60 * 60 * 1000

\* first-seen dates the origin lookup may report, in days before now
BirthLookbackDays == {3, 11}

\* request values
Tokens == {"0xAbCdEf0123"}

Networks == {"ethereum", "polygon"}

Timestamps == {84400, 88000, 90000, 170000}

\* a query timestamp of the day before the start of the clock
RecentTimestamp == StartMs \div 1000 - 86000

\* price requests: the complete ones (every timestamp on one network, an
\* early and a recent timestamp on the other, a negative timestamp), and the
\* incomplete ones
PriceRequests ==
  [token : {<<t>> : t \in Tokens}, network : {<<"ethereum">>},
   timestamp : {<<t>> : t \in Timestamps}]
  \cup {[token |-> <<"0xAbCdEf0123">>, network |-> <<"polygon">>,
         timestamp |-> <<90000>>],
        [token |-> <<"0xAbCdEf0123">>, network |-> <<"polygon">>,
         timestamp |-> <<RecentTimestamp>>],
        [token |-> <<"0xAbCdEf0123">>, network |-> <<"ethereum">>,
         timestamp |-> <<-86400>>],
        [token |-> <<>>, network |-> <<"ethereum">>, timestamp |-> <<90000>>],
        [token |-> <<"0xAbCdEf0123">>, network |-> <<"">>,
         timestamp |-> <<90000>>],
        [token |-> <<"0xAbCdEf0123">>, network |-> <<"ethereum">>,
         timestamp |-> <<>>],
        [token |-> <<"0xAbCdEf0123">>, network |-> <<"ethereum">>,
         timestamp |-> <<0>>]}

\* prices the external source may deliver, in 1e-9 units (1.050000006 and
\* 1.050001204: inside the range of the mock, not multiples of 1e-8)
ExtPrices == {1050000006, 1050001204}

\* what the external call may do: throw, or deliver a price
ExtFailure == 0

ExtOutcomes == {ExtFailure} \cup ExtPrices

\* what one chunk of fetchPriceFromAlchemy calls may do: one of them throws,
\* or all deliver (the same price, 1.050001204)
FetchOutcomes == {ExtFailure, 1050001204}

(***************************************************************************)
(* Program constants                                                       *)
(***************************************************************************)
tolerance == 3600

oneDaySeconds == 24 * 60 * 60

chunkSize == 10

\* setTimeout(..., 1000): the background execution starts one second after
\* the request at the earliest
startDelayMs == 1000

\* the pacing delay between two chunks (milliseconds)
chunkDelayMs == 2000

\* the price of a response that carries none
NoPrice == -1

(***************************************************************************)
(* String and number helpers of the runtime                                *)
(***************************************************************************)
\* String.prototype.toLowerCase on the request tokens
toLowerCase(tok) ==
  CASE tok = "0xAbCdEf0123" -> "0xabcdef0123"
    [] OTHER -> tok

\* token.slice(0, 8)
slice8(tok) ==
  CASE tok = "0xAbCdEf0123" -> "0xAbCdEf"
    [] tok = "0xabcdef0123" -> "0xabcdef"
    [] OTHER -> tok

\* Number.prototype.toFixed(8) followed by parseFloat, and the rounding of a
\* DECIMAL(20, 8) column: 1e-9 units to the nearest 1e-8 unit
toFixed8(p9) == (p9 + 5) \div 10

\* new Date(timestamp * 1000).toISOString().split('T')[0], as a day number
\* (days since 1970-01-01, UTC)
targetDate(timestamp) == timestamp \div oneDaySeconds

\* Math.floor(new Date(date).getTime() / 1000): UTC midnight of a day number
dateToSeconds(date) == date * oneDaySeconds

\* a request field is an option: <<>> when the JSON body lacks it.
\* JavaScript truthiness of a request field: undefined and "" are falsy
TruthyStr(field) == field # <<>> /\ field[1] # ""

\* JavaScript truthiness of a request field: undefined and 0 are falsy
TruthyNum(field) == field # <<>> /\ field[1] # 0

(***************************************************************************)
(* token_prices: rows and the queries of the price function                *)
(***************************************************************************)
PriceRow(tok, net, ts, p8) ==
  [token_address |-> toLowerCase(tok), network |-> net, timestamp |-> ts,
   price |-> p8, date |-> targetDate(ts)]

\* a table without the unique index: no insert conflicts
UniqueConflictNever(S, row) == FALSE

\* CREATE UNIQUE INDEX idx_token_prices_unique (token_address, network, date)
UniqueConflict(S, row) ==
  \E r \in S : /\ r.token_address = row.token_address
               /\ r.network = row.network
               /\ r.date = row.date

\* mutant: an upsert on the unique index (ON CONFLICT ... DO UPDATE), the
\* rows of the store that conflict are replaced
InsertRowsUpsert(S, rows) ==
  {r \in S : ~\E row \in rows : UniqueConflict({r}, row)} \cup rows

\* .from('token_prices').insert(rows): one INSERT statement, rejected as a
\* whole when any row violates the unique index; the caller gets the error
\* in the result object, nothing is thrown
InsertRows(S, rows) ==
  IF \/ \E row \in rows : UniqueConflict(S, row)
     \/ \E r1, r2 \in rows : r1 # r2 /\ UniqueConflict({r1}, r2)
  THEN S
  ELSE S \cup rows

\* .order('timestamp', { ascending: true }).limit(1)
FirstAscending(rows) ==
  IF rows = {} THEN <<>>
  ELSE <<CHOOSE r \in rows : \A q \in rows : r.timestamp <= q.timestamp>>

\* .order('timestamp', { ascending: false }).limit(1)
FirstDescending(rows) ==
  IF rows = {} THEN <<>>
  ELSE <<CHOOSE r \in rows : \A q \in rows : r.timestamp >= q.timestamp>>

KeyRows(S, tok, net) ==
  {r \in S : r.token_address = toLowerCase(tok) /\ r.network = net}

\* mutant: the window with .gt / .lt in place of .gte / .lte
exactMatchStrict(S, tok, net, timestamp) ==
  FirstAscending({r \in KeyRows(S, tok, net) :
                    /\ r.timestamp > timestamp - tolerance
                    /\ r.timestamp < timestamp + tolerance})

exactMatch(S, tok, net, timestamp) ==
  FirstAscending({r \in KeyRows(S, tok, net) :
                    /\ r.timestamp >= timestamp - tolerance
                    /\ r.timestamp <= timestamp + tolerance})

beforePrices(S, tok, net, timestamp) ==
  FirstDescending({r \in KeyRows(S, tok, net) : r.timestamp < timestamp})

afterPrices(S, tok, net, timestamp) ==
  FirstAscending({r \in KeyRows(S, tok, net) : r.timestamp > timestamp})

\* interpolatePrice followed by parseFloat(x.toFixed(8)): the exact value is
\*   beforePrice + (afterPrice - beforePrice) * ratio,
\*   ratio = (target - before) / (after - before),
\* and toFixed(8) rounds it to the nearest 1e-8 unit.  beforePrice is a whole
\* number of units, so only the second term is rounded.
\* mutant: the ratio applied from the wrong end
interpolatePriceSwapped(targetTimestamp, beforeTimestamp, beforePrice, afterTimestamp, afterPrice) ==
  LET num == (beforePrice - afterPrice) * (targetTimestamp - beforeTimestamp)
      den == afterTimestamp - beforeTimestamp
  IN afterPrice + (((2 * num) + den) \div (2 * den))

interpolatePrice(targetTimestamp, beforeTimestamp, beforePrice, afterTimestamp, afterPrice) ==
  LET num == (afterPrice - beforePrice) * (targetTimestamp - beforeTimestamp)
      den == afterTimestamp - beforeTimestamp
  IN beforePrice + (((2 * num) + den) \div (2 * den))

(***************************************************************************)
(* schedule function: helpers                                              *)
(***************************************************************************)
\* schedule requests: every complete one, and one that lacks the token
ScheduleRequests ==
  [token : {<<t>> : t \in Tokens}, network : {<<n>> : n \in Networks}]
  \cup {[token |-> <<>>, network |-> <<"ethereum">>]}

\* getTokenBirthdate: Math.floor((Date.now() - lookback) / 1000); the mock's
\* "one year ago" stands for the first transaction date the provider
\* reports, here lookbackDays before now
getTokenBirthdate(ms, lookbackDays) ==
  (ms - (lookbackDays * 24 * 60 * 60 * 1000)) \div 1000

\* the for loop of generateDailyTimestamps, from ts on
RECURSIVE dailyFrom(_, _)
dailyFrom(ts, now) ==
  IF ts <= now THEN <<ts>> \o dailyFrom(ts + oneDaySeconds, now) ELSE <<>>

\* an enumeration that leaves out the start
generateDailyTimestampsAfterStart(startTimestamp, ms) ==
  dailyFrom(startTimestamp + oneDaySeconds, ms \div 1000)

\* generateDailyTimestamps(startTimestamp), with now = floor(Date.now()/1000)
generateDailyTimestamps(startTimestamp, ms) ==
  dailyFrom(startTimestamp, ms \div 1000)

\* .select('date').order('date', { ascending: false }).limit(1)
existingData(S, tok, net) ==
  IF KeyRows(S, tok, net) = {} THEN <<>>
  ELSE <<CHOOSE r \in KeyRows(S, tok, net) :
           \A q \in KeyRows(S, tok, net) : r.date >= q.date>>

\* a resume point that is the latest stored day itself
startTimestampSameDay(S, tok, net, ms, lookbackDays) ==
  IF existingData(S, tok, net) # <<>>
  THEN dateToSeconds(existingData(S, tok, net)[1].date)
  ELSE getTokenBirthdate(ms, lookbackDays)

\* the resume point or the birth date
startTimestamp(S, tok, net, ms, lookbackDays) ==
  IF existingData(S, tok, net) # <<>>
  THEN dateToSeconds(existingData(S, tok, net)[1].date) + 86400
  ELSE getTokenBirthdate(ms, lookbackDays)

\* `job-${token.slice(0, 8)}-${Date.now()}` and `no-work-${Date.now()}`
JobIdOf(tok, ms) == <<"job", slice8(tok), ms>>

\* an identifier of the job form for the no-work answer
NoWorkIdAsJob(ms) == <<"job", "", ms>>

NoWorkId(ms) == <<"no-work", "", ms>>

Min(a, b) == IF a < b THEN a ELSE b

Max(a, b) == IF a > b THEN a ELSE b

\* a callback that needs no delay to start
EarliestChunkMsNoDelay(ms, k) == ms

\* the earliest time at which the execution scheduled at ms can start the
\* fetches of its chunk k: the start delay, and a pacing delay per earlier
\* chunk
EarliestChunkMs(ms, k) == ms + startDelayMs + ((k - 1) * chunkDelayMs)

\* chunks.length for the loop that slices dailyTimestamps by chunkSize
NumChunks(daily) == (Len(daily) + chunkSize - 1) \div chunkSize

\* chunks[k - 1], k = 1 .. NumChunks
Chunk(daily, k) ==
  SubSeq(daily, ((k - 1) * chunkSize) + 1, Min(k * chunkSize, Len(daily)))

\* .from('price_fetch_jobs').insert(row): job_id is UNIQUE, a second row
\* with the same job_id is rejected (the error is returned, not thrown)
InsertJob(J, row) ==
  IF \E j \in J : j.job_id = row.job_id THEN J ELSE J \cup {row}

\* a progress update that stores the counter and leaves the status alone
UpdateJobCounterOnly(J, id, completed, status) ==
  {IF j.job_id = id THEN [j EXCEPT !.completed_days = completed] ELSE j :
     j \in J}

\* .update({ completed_days, status, updated_at }).eq('job_id', id)
UpdateJob(J, id, completed, status) ==
  {IF j.job_id = id
   THEN [j EXCEPT !.completed_days = completed, !.status = status]
   ELSE j : j \in J}

\* .update({ status: 'error', error_message, updated_at }).eq('job_id', id)
FailJob(J, id, message) ==
  {IF j.job_id = id
   THEN [j EXCEPT !.status = "error", !.error_message = message]
   ELSE j : j \in J}

\* the statuses written to the row of each job_id, oldest first
LogStatus(H, J, id, status) ==
  IF \E j \in J : j.job_id = id
  THEN [h \in DOMAIN H \cup {id} |->
          IF h = id
          THEN (IF id \in DOMAIN H THEN H[id] ELSE <<>>) \o <<status>>
          ELSE H[h]]
  ELSE H

(***************************************************************************)
(* State                                                                   *)
(***************************************************************************)
VARIABLES
  token_prices,    \* rows of table token_prices
  alchemyApiKey,   \* Deno.env.get('ALCHEMY_API_KEY') is set
  birthLookbackDays, \* how long before now getTokenBirthdate reports
  nowMs,           \* Date.now(), as last read
  ticks,           \* clock steps taken so far
  last,            \* the last price request and the response it got
  price_fetch_jobs,\* rows of table price_fetch_jobs
  job_history,     \* per job_id, the statuses written to its row
  runners,         \* the background executions started by setTimeout
  lastSchedule,    \* the last schedule request and the response it got
  interp           \* a call of interpolatePrice on its own: the arguments
                   \* and, once it has run, its outcome

vars == <<token_prices, alchemyApiKey, birthLookbackDays, nowMs, ticks, last,
          price_fetch_jobs, job_history, runners, lastSchedule, interp>>

priceVars == <<token_prices, last>>

jobVars == <<price_fetch_jobs, job_history, runners, lastSchedule>>

NoCall ==
  [call |-> 0, token |-> <<>>, network |-> <<>>, timestamp |-> <<>>,
   status |-> 0, error |-> "", price |-> NoPrice, source |-> "",
   effects |-> {}, fetched |-> NoPrice, storeBefore |-> {},
   storeAfter |-> {}]

NoSchedule ==
  [call |-> 0, token |-> <<>>, network |-> <<>>, status |-> 0, error |-> "",
   job_id |-> <<>>, estimated_days |-> 0, started |-> FALSE]

\* no outcome: the call has not run
NoOutcome == [thrown |-> "", number |-> "", value |-> <<>>]

\* no call of interpolatePrice on its own
NoInterp ==
  [targetTimestamp |-> 0, beforeTimestamp |-> 0, beforePrice |-> 0,
   afterTimestamp |-> 0, afterPrice |-> 0, called |-> FALSE,
   outcome |-> NoOutcome]

Init ==
  /\ interp = NoInterp
  /\ token_prices = {}
  /\ alchemyApiKey \in BOOLEAN
  /\ birthLookbackDays \in BirthLookbackDays
  /\ nowMs = StartMs
  /\ ticks = 0
  /\ last = NoCall
  /\ price_fetch_jobs = {}
  /\ job_history = <<>>
  /\ runners = <<>>
  /\ lastSchedule = NoSchedule

(***************************************************************************)
(* price function: the serve handler                                       *)
(***************************************************************************)
\* mutant: the check of the API key left out
alchemyApiKeyIgnored == FALSE

\* const alchemyApiKey = Deno.env.get('ALCHEMY_API_KEY'); if (!alchemyApiKey)
alchemyApiKeyMissing == ~alchemyApiKey

\* the response and the effects of one request, as a record
\*   mockPrice: what the external call does (ExtFailure: it throws)
PriceResponse(S, token, network, timestamp, mockPrice) ==
  LET base == [NoCall EXCEPT !.token = token, !.network = network,
                             !.timestamp = timestamp, !.storeBefore = S]
  IN
  IF ~TruthyStr(token) \/ ~TruthyStr(network) \/ ~TruthyNum(timestamp)
  THEN [base EXCEPT !.status = 400,
          !.error = "Missing required fields: token, network, timestamp"]
  ELSE
    LET tok == token[1]
        net == network[1]
        ts  == timestamp[1]
        em  == exactMatch(S, tok, net, ts)
        bp  == beforePrices(S, tok, net, ts)
        ap  == afterPrices(S, tok, net, ts)
    IN
    IF em # <<>>
    THEN [base EXCEPT !.status = 200, !.price = em[1].price,
            !.source = "cache", !.effects = {"exactMatch"}]
    ELSE IF bp # <<>> /\ ap # <<>>
    THEN [base EXCEPT !.status = 200,
            !.price = interpolatePrice(ts, bp[1].timestamp, bp[1].price,
                                       ap[1].timestamp, ap[1].price),
            !.source = "interpolated",
            !.effects = {"exactMatch", "beforePrices", "afterPrices",
                         "interpolatePrice"}]
    ELSE IF alchemyApiKeyMissing
    THEN [base EXCEPT !.status = 500,
            !.error = "Alchemy API key not configured",
            !.effects = {"exactMatch", "beforePrices", "afterPrices"}]
    ELSE IF mockPrice = ExtFailure
    THEN [base EXCEPT !.status = 500, !.error = "Internal server error",
            !.fetched = ExtFailure,
            !.effects = {"exactMatch", "beforePrices", "afterPrices",
                         "fetch"}]
    ELSE [base EXCEPT !.status = 200, !.price = toFixed8(mockPrice),
            !.source = "alchemy", !.fetched = mockPrice,
            !.effects = {"exactMatch", "beforePrices", "afterPrices",
                         "fetch", "insert"}]

\* mutant: the fetched price is returned and not stored
PriceWriteBackSkipped(S, resp) == S

\* the write-back of the handler: only a response that went through the
\* external call inserts a row
PriceWriteBack(S, resp) ==
  IF "insert" \in resp.effects
  THEN InsertRows(S, {PriceRow(resp.token[1], resp.network[1],
                               resp.timestamp[1], toFixed8(resp.fetched))})
  ELSE S

PriceHandler ==
  /\ last.call + lastSchedule.call < MaxRequests
  /\ \E req \in PriceRequests, mockPrice \in ExtOutcomes :
       LET resp == PriceResponse(token_prices, req.token, req.network,
                                 req.timestamp, mockPrice)
       IN /\ token_prices' = PriceWriteBack(token_prices, resp)
          /\ last' = [resp EXCEPT !.call = last.call + 1,
                                  !.storeAfter = token_prices']
  /\ UNCHANGED <<interp, alchemyApiKey, birthLookbackDays, nowMs, ticks>>
  /\ UNCHANGED jobVars

(***************************************************************************)
(* schedule function: the serve handler                                    *)
(***************************************************************************)
ScheduleHandler ==
  /\ last.call + lastSchedule.call < MaxRequests
  /\ lastSchedule.call < MaxScheduleCalls
  /\ \E req \in ScheduleRequests, elapsed \in 0 .. (MaxTicks - ticks) :
       LET base == [NoSchedule EXCEPT !.call = lastSchedule.call + 1,
                      !.token = req.token, !.network = req.network]
           now == nowMs + (elapsed * TickMs)
       IN
       /\ ticks' = ticks + elapsed
       /\ nowMs' = now
       /\ IF ~TruthyStr(req.token) \/ ~TruthyStr(req.network)
          THEN /\ lastSchedule' = [base EXCEPT !.status = 400,
                    !.error = "Missing required fields: token, network"]
               /\ UNCHANGED <<price_fetch_jobs, job_history, runners>>
          ELSE
            LET tok == req.token[1]
                net == req.network[1]
                dailyTimestamps ==
                  generateDailyTimestamps(
                    startTimestamp(token_prices, tok, net, now,
                                   birthLookbackDays),
                    now)
                jobId == JobIdOf(tok, now)
                row == [job_id |-> jobId, token_address |-> toLowerCase(tok),
                        network |-> net, total_days |-> Len(dailyTimestamps),
                        completed_days |-> 0, status |-> "running",
                        error_message |-> ""]
            IN
            IF Len(dailyTimestamps) = 0
            THEN /\ lastSchedule' = [base EXCEPT !.status = 200,
                      !.job_id = NoWorkId(now), !.estimated_days = 0]
                 /\ UNCHANGED <<price_fetch_jobs, job_history, runners>>
            ELSE /\ price_fetch_jobs' = InsertJob(price_fetch_jobs, row)
                 /\ job_history' =
                      IF price_fetch_jobs' # price_fetch_jobs
                      THEN LogStatus(job_history, price_fetch_jobs', jobId,
                                     row.status)
                      ELSE job_history
                 /\ runners' = Append(runners,
                      [jobId |-> jobId, token |-> tok, network |-> net,
                       scheduledMs |-> now,
                       dailyTimestamps |-> dailyTimestamps, chunk |-> 1,
                       completedDays |-> 0, pc |-> "chunk", fetches |-> 0,
                       inserts |-> 0, updates |-> 0, delays |-> 0,
                       error |-> "", failedTimestamp |-> <<>>])
                 /\ lastSchedule' = [base EXCEPT !.status = 200,
                      !.job_id = jobId,
                      !.estimated_days = Len(dailyTimestamps),
                      !.started = TRUE]
  /\ UNCHANGED <<interp, alchemyApiKey, birthLookbackDays>>
  /\ UNCHANGED priceVars

(***************************************************************************)
(* schedule function: the background execution (the setTimeout callback)  *)
(***************************************************************************)
\* one iteration of the chunk loop up to the batch insert:
\*   chunk.map(fetchPriceFromAlchemy) and Promise.all - every fetch of the
\*   chunk succeeds (one delivered price for the chunk), or the fetch of one
\*   timestamp throws (the first or the last of the chunk, the others
\*   succeeding) and the rejection of Promise.all lands in the catch block,
\*   before any insert;
\*   await supabase.from('token_prices').insert(prices) - result not looked at;
\*   completedDays += chunk.length
\* The clock is at least the earliest time of this chunk when it runs.
RunnerChunk(i) ==
  /\ runners[i].pc = "chunk"
  /\ nowMs' = Max(nowMs, EarliestChunkMs(runners[i].scheduledMs,
                                         runners[i].chunk))
  /\ \E price \in FetchOutcomes, failing \in {1, chunkSize} :
       LET r == runners[i]
           chunk == Chunk(r.dailyTimestamps, r.chunk)
           failed == chunk[Min(failing, Len(chunk))]
           prices == {PriceRow(r.token, r.network, chunk[k], toFixed8(price)) :
                        k \in DOMAIN chunk}
       IN
       IF price = ExtFailure
       THEN /\ runners' = [runners EXCEPT ![i].pc = "catch",
                                          ![i].fetches = r.fetches + 1,
                                          ![i].error = "fetch failed",
                                          ![i].failedTimestamp = <<failed>>]
            /\ UNCHANGED token_prices
       ELSE /\ token_prices' = InsertRows(token_prices, prices)
            /\ runners' = [runners EXCEPT ![i].pc = "update",
                 ![i].fetches = r.fetches + 1,
                 ![i].inserts = r.inserts + 1,
                 ![i].completedDays = r.completedDays + Len(chunk)]
  /\ UNCHANGED <<interp, alchemyApiKey, birthLookbackDays, ticks, last,
                 price_fetch_jobs, job_history, lastSchedule>>

\* a pacing delay after every chunk, the last one included
DelayAfterAlways(r) == TRUE

\* chunks.indexOf(chunk) < chunks.length - 1: a pacing delay follows the
\* chunk the execution r is at
DelayAfter(r) == r.chunk - 1 < NumChunks(r.dailyTimestamps) - 1

\* the progress update of the job row, then the pacing delay when another
\* chunk follows (chunks.indexOf(chunk) < chunks.length - 1), then the next
\* iteration
RunnerUpdate(i) ==
  /\ runners[i].pc = "update"
  /\ LET r == runners[i]
         status == IF r.completedDays >= Len(r.dailyTimestamps)
                   THEN "completed" ELSE "running"
         more == r.chunk < NumChunks(r.dailyTimestamps)
     IN /\ price_fetch_jobs' = UpdateJob(price_fetch_jobs, r.jobId,
                                         r.completedDays, status)
        /\ job_history' = LogStatus(job_history, price_fetch_jobs, r.jobId,
                                    status)
        /\ runners' = [runners EXCEPT
             ![i].pc = IF more THEN "chunk" ELSE "done",
             ![i].chunk = IF more THEN r.chunk + 1 ELSE r.chunk,
             ![i].updates = r.updates + 1,
             ![i].delays = IF DelayAfter(r) THEN r.delays + 1 ELSE r.delays]
  /\ UNCHANGED <<interp, alchemyApiKey, birthLookbackDays, nowMs, ticks,
                 lastSchedule>>
  /\ UNCHANGED priceVars

\* the catch block of the callback
RunnerCatch(i) ==
  /\ runners[i].pc = "catch"
  /\ LET r == runners[i]
     IN /\ price_fetch_jobs' = FailJob(price_fetch_jobs, r.jobId, r.error)
        /\ job_history' = LogStatus(job_history, price_fetch_jobs, r.jobId,
                                    "error")
        /\ runners' = [runners EXCEPT ![i].pc = "failed"]
  /\ UNCHANGED <<interp, alchemyApiKey, birthLookbackDays, nowMs, ticks,
                 lastSchedule>>
  /\ UNCHANGED priceVars

Next ==
  \/ PriceHandler
  \/ ScheduleHandler
  \/ \E i \in DOMAIN runners : RunnerChunk(i)
  \/ \E i \in DOMAIN runners : RunnerUpdate(i)
  \/ \E i \in DOMAIN runners : RunnerCatch(i)

Spec == Init /\ [][Next]_vars

(***************************************************************************)
(* interpolatePrice on its own: the function applied to arguments that     *)
(* need not be a bracket                                                   *)
(***************************************************************************)
\* argument values: timestamps in seconds, prices in 1e-8 units (1e-8, 1.0,
\* 1.05000001, 2.0)
InterpTimestamps == {1000, 1001, 1002, 1004}

InterpPrices == {1, 100000000, 105000001, 200000000}

\* the outcome of interpolatePrice(...) and of the toFixed(8) / parseFloat
\* of its call site.  The body is arithmetic on Numbers, which never
\* throws: with afterTimestamp = beforeTimestamp the ratio is x / 0, that
\* is NaN for x = 0 and +-Infinity otherwise; 0 * Infinity is NaN; and
\* toFixed / parseFloat keep NaN and +-Infinity.
interpolateCall(targetTimestamp, beforeTimestamp, beforePrice, afterTimestamp, afterPrice) ==
  IF afterTimestamp # beforeTimestamp
  THEN [thrown |-> "", number |-> "finite",
        value |-> <<interpolatePrice(targetTimestamp, beforeTimestamp,
                                     beforePrice, afterTimestamp,
                                     afterPrice)>>]
  ELSE IF targetTimestamp = beforeTimestamp \/ afterPrice = beforePrice
  THEN [thrown |-> "", number |-> "NaN", value |-> <<>>]
  ELSE IF (targetTimestamp > beforeTimestamp) = (afterPrice > beforePrice)
  THEN [thrown |-> "", number |-> "Infinity", value |-> <<>>]
  ELSE [thrown |-> "", number |-> "-Infinity", value |-> <<>>]

InterpInit ==
  /\ interp \in {[NoInterp EXCEPT !.targetTimestamp = t,
                                  !.beforeTimestamp = t0,
                                  !.beforePrice = p0,
                                  !.afterTimestamp = t1,
                                  !.afterPrice = p1] :
                   t \in InterpTimestamps, t0 \in InterpTimestamps,
                   t1 \in InterpTimestamps, p0 \in InterpPrices,
                   p1 \in InterpPrices}
  /\ token_prices = {}
  /\ alchemyApiKey = TRUE
  /\ birthLookbackDays = 3
  /\ nowMs = StartMs
  /\ ticks = 0
  /\ last = NoCall
  /\ price_fetch_jobs = {}
  /\ job_history = <<>>
  /\ runners = <<>>
  /\ lastSchedule = NoSchedule

InterpolateCall ==
  /\ ~interp.called
  /\ interp' = [interp EXCEPT
                  !.called = TRUE,
                  !.outcome = interpolateCall(interp.targetTimestamp,
                                              interp.beforeTimestamp,
                                              interp.beforePrice,
                                              interp.afterTimestamp,
                                              interp.afterPrice)]
  /\ UNCHANGED <<alchemyApiKey, birthLookbackDays, nowMs, ticks>>
  /\ UNCHANGED priceVars
  /\ UNCHANGED jobVars

InterpNext == InterpolateCall

InterpSpec == InterpInit /\ [][InterpNext]_vars

(***************************************************************************)
(* The claims.  Their vocabulary is that of the specification: a price     *)
(* query that passes the input contract, the points stored for its         *)
(* (token, network), the +-3600 s window around its timestamp.             *)
(***************************************************************************)
\* the query has all three fields and a positive timestamp
WellFormed(l) ==
  /\ l.call > 0
  /\ l.token # <<>> /\ l.token[1] # ""
  /\ l.network # <<>> /\ l.network[1] # ""
  /\ l.timestamp # <<>> /\ l.timestamp[1] > 0

\* the points stored for the (token, network) of the query
StoredFor(S, l) ==
  {r \in S : r.token_address = toLowerCase(l.token[1])
             /\ r.network = l.network[1]}

\* those within 3600 seconds of the queried timestamp
InWindow(S, l) ==
  {r \in StoredFor(S, l) : /\ r.timestamp >= l.timestamp[1] - 3600
                           /\ r.timestamp <= l.timestamp[1] + 3600}

Dist(a, b) == IF a >= b THEN a - b ELSE b - a

\* the call made no interpolation, no external fetch and no store write
NoFurtherWork(l) ==
  /\ l.effects \cap {"interpolatePrice", "fetch", "insert"} = {}
  /\ l.storeAfter = l.storeBefore

\* C1: whenever the store holds a point of the queried (token, network)
\* within 3600 s of the queried timestamp, the response is a cache response
\* carrying the price of such a stored point, and the call made no
\* interpolation, no external fetch and no store write.
C1_CacheHitPrecedence ==
  (WellFormed(last) /\ InWindow(last.storeBefore, last) # {}) =>
     /\ last.status = 200
     /\ last.source = "cache"
     /\ \E r \in InWindow(last.storeBefore, last) : r.price = last.price
     /\ NoFurtherWork(last)

\* C1 witness: a cache response to a query with a stored point in its window
C1_Witness ==
  /\ WellFormed(last)
  /\ InWindow(last.storeBefore, last) # {}
  /\ last.source = "cache"

\* the stored points of the window closest to the queried timestamp, and
\* among them the earliest
Closest(S, l) ==
  LET W == InWindow(S, l)
      near == {r \in W : \A q \in W :
                 Dist(r.timestamp, l.timestamp[1])
                   <= Dist(q.timestamp, l.timestamp[1])}
  IN CHOOSE r \in near : \A q \in near : r.timestamp <= q.timestamp

\* C2: a query with stored points in its window gets the price of the point
\* whose timestamp is closest to the queried one (the earliest of equally
\* close points).
C2_ClosestPoint ==
  (WellFormed(last) /\ InWindow(last.storeBefore, last) # {}) =>
     last.price = Closest(last.storeBefore, last).price
\* the nearest stored point strictly before, and strictly after, the query
Before(S, l) ==
  {r \in StoredFor(S, l) :
     /\ r.timestamp < l.timestamp[1]
     /\ \A q \in StoredFor(S, l) :
          q.timestamp < l.timestamp[1] => q.timestamp <= r.timestamp}

After(S, l) ==
  {r \in StoredFor(S, l) :
     /\ r.timestamp > l.timestamp[1]
     /\ \A q \in StoredFor(S, l) :
          q.timestamp > l.timestamp[1] => q.timestamp >= r.timestamp}

\* no stored point in the window, and a two-sided bracket
Bracketed(l) ==
  /\ WellFormed(l)
  /\ InWindow(l.storeBefore, l) = {}
  /\ Before(l.storeBefore, l) # {}
  /\ After(l.storeBefore, l) # {}

\* (price - p0) * (t1 - t0), and (p1 - p0) * (t - t0): equal exactly when
\* price = p0 + (p1 - p0) * (t - t0) / (t1 - t0)
InterpLeft(l, b, a) == (l.price - b.price) * (a.timestamp - b.timestamp)

InterpRight(l, b, a) ==
  (a.price - b.price) * (l.timestamp[1] - b.timestamp)

\* C4 as stated: with no stored point in the window and a two-sided bracket
\* (t0, p0), (t1, p1), the response is an interpolated response whose price
\* is exactly p0 + (p1 - p0) * (t - t0) / (t1 - t0), and the call made no
\* external fetch and no store write.
C4_ExactInterpolation ==
  Bracketed(last) =>
     /\ last.status = 200
     /\ last.source = "interpolated"
     /\ \A b \in Before(last.storeBefore, last),
           a \in After(last.storeBefore, last) :
          InterpLeft(last, b, a) = InterpRight(last, b, a)
     /\ last.effects \cap {"fetch", "insert"} = {}
     /\ last.storeAfter = last.storeBefore

\* C4 amended: the same, the price being p0 + (p1 - p0) * (t - t0) / (t1 - t0)
\* rounded to 8 decimal places (at most half a 1e-8 unit away from it).
C4_RoundedInterpolation ==
  Bracketed(last) =>
     /\ last.status = 200
     /\ last.source = "interpolated"
     /\ \A b \in Before(last.storeBefore, last),
           a \in After(last.storeBefore, last) :
          2 * Dist(InterpLeft(last, b, a), InterpRight(last, b, a))
            <= a.timestamp - b.timestamp
     /\ last.effects \cap {"fetch", "insert"} = {}
     /\ last.storeAfter = last.storeBefore

\* C4 witness: an interpolated response whose exact value is no multiple of
\* 1e-8
C4_Witness ==
  /\ Bracketed(last)
  /\ last.source = "interpolated"
  /\ \E b \in Before(last.storeBefore, last),
        a \in After(last.storeBefore, last) :
       InterpLeft(last, b, a) # InterpRight(last, b, a)

\* a step that serves the next price query
NextPriceCall == last'.call = last.call + 1

SameQuery(l1, l2) ==
  /\ l1.token = l2.token
  /\ l1.network = l2.network
  /\ l1.timestamp = l2.timestamp

\* the external source was asked and delivered a price
Delivered(l) == l.fetched # NoPrice /\ l.fetched # ExtFailure

\* C5 as stated: a query served on an empty store by an external source that
\* delivers p gets price p with source external, and the next query, if it
\* is the same query, gets source cache.
C5_ExternalThenCache ==
  [][(/\ NextPriceCall
      /\ WellFormed(last)
      /\ last.storeBefore = {}
      /\ Delivered(last)
      /\ SameQuery(last, last'))
     => (/\ last.status = 200
         /\ last.source = "alchemy"
         /\ last.price * 10 = last.fetched
         /\ last'.source = "cache")]_vars

\* C5 amended: the price returned is p rounded to 8 decimal places (at most
\* half a 1e-8 unit away from p); the rest as stated.
C5_ExternalRoundedThenCache ==
  [][(/\ NextPriceCall
      /\ WellFormed(last)
      /\ last.storeBefore = {}
      /\ Delivered(last)
      /\ SameQuery(last, last'))
     => (/\ last.status = 200
         /\ last.source = "alchemy"
         /\ Dist(last.price * 10, last.fetched) <= 5
         /\ last'.status = 200
         /\ last'.source = "cache"
         /\ last'.price = last.price)]_vars

\* C5 witness: the second query of a run is answered from the cache, out of
\* a store whose only point is the one the first, identical, query wrote
C5_Witness ==
  /\ last.call = 2
  /\ lastSchedule.call = 0
  /\ WellFormed(last)
  /\ last.source = "cache"
  /\ Cardinality(last.storeBefore) = 1
  /\ \E r \in StoredFor(last.storeBefore, last) :
       r.timestamp = last.timestamp[1]

\* C6: two successive price queries that are the same query, served against
\* the same store contents, get the same (price, source).
C6_Idempotent ==
  [][(/\ NextPriceCall
      /\ WellFormed(last)
      /\ SameQuery(last, last')
      /\ last'.storeBefore = last.storeBefore
      /\ last.status = 200
      /\ last'.status = 200)
     => (/\ last'.price = last.price
         /\ last'.source = last.source)]_vars

\* what the caller sees of a response
Visible(l) == <<l.status, l.error, l.price, l.source>>

\* the response came from the external source, and its write landed or not
WriteLanded(l) == l.source = "alchemy" /\ l.storeAfter # l.storeBefore

WriteLost(l) == l.source = "alchemy" /\ l.storeAfter = l.storeBefore

\* C7: a response whose fetch succeeded and whose store write failed still
\* carries the fetched price (to 8 decimal places), and differs, in what the
\* caller sees, from a response whose write succeeded.
C7_DegradedWriteVisible ==
  [][(NextPriceCall /\ WriteLanded(last) /\ WriteLost(last'))
     => (/\ Dist(last'.price * 10, last'.fetched) <= 5
         /\ Visible(last') # Visible(last))]_vars

\* C8: with no stored point in the window, no two-sided bracket, and the
\* external source unavailable (no API key) or failing, the response is an
\* error response without a price, and the store is as it was.
C8_UpstreamUnavailable ==
  (/\ WellFormed(last)
   /\ InWindow(last.storeBefore, last) = {}
   /\ (Before(last.storeBefore, last) = {}
         \/ After(last.storeBefore, last) = {})
   /\ (~alchemyApiKey \/ last.fetched = ExtFailure))
  => (/\ last.status = 500
      /\ last.error # ""
      /\ last.price = NoPrice
      /\ last.source = ""
      /\ "insert" \notin last.effects
      /\ last.storeAfter = last.storeBefore)

\* C8 witness: such a query answered with the error of the missing API key
C8_Witness ==
  /\ WellFormed(last)
  /\ InWindow(last.storeBefore, last) = {}
  /\ ~alchemyApiKey
  /\ last.status = 500
  /\ last.error = "Alchemy API key not configured"

\* C9: a price query that lacks a field, or whose timestamp is not a positive
\* integer, gets the validation error (status 400, unlike every other error
\* response), and the call reads and writes no store and fetches nothing.
C9_ValidationError ==
  (last.call > 0 /\ ~WellFormed(last)) =>
     /\ last.status = 400
     /\ last.effects = {}
     /\ last.storeAfter = last.storeBefore

\* C10: the statuses written to the row of a job identifier start at
\* pending, and after completed or error no later write changes the status.
C10_JobStateMachine ==
  \A id \in DOMAIN job_history :
    LET h == job_history[id]
    IN /\ h[1] = "pending"
       /\ \A k \in 1 .. (Len(h) - 1) :
            h[k] \in {"completed", "error"} => h[k + 1] = h[k]

(***************************************************************************)
(* Claims about the backfill jobs                                          *)
(***************************************************************************)
\* C11: in every state every job row has completed_days <= total_days, and
\* its status is completed exactly when completed_days = total_days
C11_ProgressInvariant ==
  \A j \in price_fetch_jobs :
    /\ j.completed_days <= j.total_days
    /\ (j.status = "completed") <=> (j.completed_days = j.total_days)

\* a step in which execution i starts the fetches of a chunk
StartsChunk(i) == runners'[i].fetches = runners[i].fetches + 1

\* every chunk before the current one of execution i is fetched, written and
\* its progress update done
EarlierChunksDone(i) ==
  /\ runners[i].fetches = runners[i].chunk - 1
  /\ runners[i].inserts = runners[i].chunk - 1
  /\ runners[i].updates = runners[i].chunk - 1

\* the stored completed_days of no job row decreases in the step
CompletedDaysMonotone ==
  \A j \in price_fetch_jobs : \A k \in price_fetch_jobs' :
    k.job_id = j.job_id => k.completed_days >= j.completed_days

\* C12: an execution starts the fetches of a chunk only when every earlier
\* chunk of it has been written and its progress update done, and the
\* completed_days stored for a job never decreases
C12_SequentialChunks ==
  [][/\ \A i \in DOMAIN runners : StartsChunk(i) => EarlierChunksDone(i)
     /\ CompletedDaysMonotone]_vars

\* the row of the job of execution i records its failure: status error, the
\* failure detail, and the completed_days of its last successful chunk
FailureRecorded(i) ==
  \E j \in price_fetch_jobs :
    /\ j.job_id = runners[i].jobId
    /\ j.status = "error"
    /\ j.error_message = runners[i].error
    /\ j.error_message # ""
    /\ j.completed_days = runners[i].completedDays

\* C13: once the fetches of a chunk have failed and the failure is handled,
\* the job row has status error, the failure detail as error_message and the
\* completed_days reached by the last successful chunk, and no chunk of
\* that job is fetched or written afterwards
C13_FetchFailureAborts ==
  [][\A i \in DOMAIN runners :
       /\ runners'[i].pc = "failed" => FailureRecorded(i)'
       /\ runners[i].pc = "failed" =>
            \A k \in DOMAIN runners :
              runners[k].jobId = runners[i].jobId => ~StartsChunk(k)]_vars

\* the store holds a point of execution i's (token, network) at timestamp ts
PointWritten(S, i, ts) ==
  \E p \in KeyRows(S, runners[i].token, runners[i].network) :
    p.timestamp = ts

\* the timestamps of execution i's current chunk
ChunkTimestamps(i) ==
  LET chunk == Chunk(runners[i].dailyTimestamps, runners[i].chunk)
  IN {chunk[k] : k \in DOMAIN chunk}

\* those other than the one whose fetch failed
Siblings(i) == ChunkTimestamps(i) \ {runners[i].failedTimestamp[1]}

\* C14: when the job is marked error after the fetch of one timestamp of a
\* chunk failed, the points of the other timestamps of that chunk are in
\* the store
C14_SiblingsWritten ==
  [][\A i \in DOMAIN runners :
       (runners[i].pc = "catch" /\ runners'[i].pc = "failed") =>
         \A ts \in Siblings(i) : PointWritten(token_prices', i, ts)]_vars

\* a step in which execution i issues the batch insert of its chunk
WritesChunk(i) == runners'[i].inserts = runners[i].inserts + 1

\* the rows of the store with the (token, network, date) of execution i's
\* timestamp ts
SameDay(S, i, ts) ==
  {p \in KeyRows(S, runners[i].token, runners[i].network) :
     p.date = targetDate(ts)}

\* C15: a batch insert keeps every existing row unchanged, and of the chunk
\* it stores every point whose (token, network, date) was not in the store
C15_BatchConflictNoOp ==
  [][\A i \in DOMAIN runners :
       WritesChunk(i) =>
         LET chunk == Chunk(runners[i].dailyTimestamps, runners[i].chunk)
         IN /\ token_prices \subseteq token_prices'
            /\ \A k \in DOMAIN chunk :
                 SameDay(token_prices, i, chunk[k]) = {} =>
                   PointWritten(token_prices', i, chunk[k])]_vars

\* the batch insert of execution i's chunk in this step did not store the
\* chunk
WriteRejected(i) ==
  /\ WritesChunk(i)
  /\ \E ts \in ChunkTimestamps(i) : ~PointWritten(token_prices', i, ts)

\* C16: when the store rejects the batch insert of a chunk, the execution
\* does not add the chunk to its completed days and turns to the error
\* handling of the job
C16_WriteFailureAborts ==
  [][\A i \in DOMAIN runners :
       WriteRejected(i) =>
         /\ runners'[i].completedDays = runners[i].completedDays
         /\ runners'[i].pc = "catch"]_vars

\* C17: while the row of a job has status completed, the store holds a point
\* of the job's (token, network) for the date of every timestamp the job
\* enumerated
C17_NoSilentDataLoss ==
  \A j \in price_fetch_jobs : \A i \in DOMAIN runners :
    (j.status = "completed" /\ runners[i].jobId = j.job_id) =>
      \A k \in DOMAIN runners[i].dailyTimestamps :
        SameDay(token_prices, i, runners[i].dailyTimestamps[k]) # {}

\* a step in which Schedule starts an execution
StartsExecution == Len(runners') = Len(runners) + 1

\* the dates stored for the (token, network) of the execution just started
StoredDates ==
  LET r == runners'[Len(runners')]
  IN {p.date : p \in KeyRows(token_prices, r.token, r.network)}

\* C18: when Schedule starts an execution for a (token, network) that has
\* stored points, the first enumerated timestamp is the UTC start of the day
\* after the latest stored date, and no enumerated timestamp has a date that
\* is in the store
C18_ResumeCorrectness ==
  [][(StartsExecution /\ StoredDates # {}) =>
       LET daily == runners'[Len(runners')].dailyTimestamps
       IN /\ daily[1] % oneDaySeconds = 0
          /\ \A d \in StoredDates : d + 1 <= targetDate(daily[1])
          /\ targetDate(daily[1]) - 1 \in StoredDates
          /\ \A k \in DOMAIN daily : targetDate(daily[k]) \notin StoredDates]_vars

\* C18 witness: an execution whose first timestamp is the start of the day
\* after a stored date of its (token, network), that date having been stored
\* by a price query
C18_Witness ==
  \E i \in DOMAIN runners :
    /\ runners[i].dailyTimestamps[1] % oneDaySeconds = 0
    /\ runners[i].pc = "chunk"
    /\ runners[i].fetches = 0
    /\ \E p \in KeyRows(token_prices, runners[i].token, runners[i].network) :
         p.date + 1 = targetDate(runners[i].dailyTimestamps[1])

\* C19: the store never holds two different rows with the same
\* (token_address, network, date)
C19_UniquePerDay ==
  \A p, q \in token_prices :
    (p.token_address = q.token_address /\ p.network = q.network
       /\ p.date = q.date) => p = q

\* C19 witness: an execution has issued the batch insert of a chunk that has
\* a timestamp on a date for which a price query wrote a point
C19_Witness ==
  \E i \in DOMAIN runners :
    /\ runners[i].inserts >= 1
    /\ \E p \in KeyRows(token_prices, runners[i].token, runners[i].network) :
         /\ p.date = targetDate(runners[i].dailyTimestamps[1])
         /\ p.timestamp # runners[i].dailyTimestamps[1]
         /\ last.source = "alchemy"
         /\ last.timestamp = <<p.timestamp>>

\* start timestamps tried around the current second, as offsets from it:
\* before, at and after it, on both sides of one and two days
EnumOffsets == {-172801, -172800, -86401, -86400, -86399, -1, 0, 1, 86400}

\* the properties of an enumeration daily made from start at second now
EnumerationCorrect(daily, start, now) ==
  /\ (daily = <<>>) <=> (start > now)
  /\ daily # <<>> =>
       /\ daily[1] = start
       /\ \A k \in 1 .. (Len(daily) - 1) : daily[k + 1] = daily[k] + 86400
       /\ daily[Len(daily)] <= now
       /\ daily[Len(daily)] > now - 86400

\* C20: generateDailyTimestamps(start) is strictly increasing with stride
\* 86400, starts at start, ends in (now - 86400, now], and is empty exactly
\* when start > now - for the start timestamps around the current second,
\* and for the enumeration of every execution at its scheduling time
C20_EnumerationCorrect ==
  /\ \A d \in EnumOffsets :
       EnumerationCorrect(
         generateDailyTimestamps((nowMs \div 1000) + d, nowMs),
         (nowMs \div 1000) + d, nowMs \div 1000)
  /\ \A i \in DOMAIN runners :
       EnumerationCorrect(runners[i].dailyTimestamps,
                          runners[i].dailyTimestamps[1],
                          runners[i].scheduledMs \div 1000)

\* C20 witness: Schedule has answered that there is no work (the enumeration
\* was empty) after an execution over a 12-day enumeration was started
C20_Witness ==
  /\ lastSchedule.status = 200
  /\ ~lastSchedule.started
  /\ lastSchedule.estimated_days = 0
  /\ \E i \in DOMAIN runners : Len(runners[i].dailyTimestamps) = 12

(***************************************************************************)
(* Claims about the Schedule handler                                       *)
(***************************************************************************)
\* a step that serves a schedule request
ScheduleCall == lastSchedule'.call = lastSchedule.call + 1

\* the request served passes the validation
ScheduleValid ==
  TruthyStr(lastSchedule'.token) /\ TruthyStr(lastSchedule'.network)

\* the enumeration the handler makes for the request served in this step
Enumerated ==
  generateDailyTimestamps(
    startTimestamp(token_prices, lastSchedule'.token[1],
                   lastSchedule'.network[1], nowMs', birthLookbackDays),
    nowMs')

\* C21: a Schedule call whose enumeration is empty answers with a no-work
\* identifier and estimated_days = 0, and leaves the job table, the
\* executions and the price table as they were
C21_NoWork ==
  [][(ScheduleCall /\ ScheduleValid /\ Enumerated = <<>>) =>
       /\ lastSchedule'.status = 200
       /\ lastSchedule'.job_id[1] = "no-work"
       /\ lastSchedule'.estimated_days = 0
       /\ price_fetch_jobs' = price_fetch_jobs
       /\ runners' = runners
       /\ token_prices' = token_prices]_vars

\* C21 witness: the last schedule request got the no-work answer
C21_Witness ==
  /\ lastSchedule.status = 200
  /\ lastSchedule.job_id # <<>>
  /\ lastSchedule.job_id[1] = "no-work"
  /\ ~lastSchedule.started

\* the token's origin is exactly 3 days before now
OriginThreeDaysAgo == birthLookbackDays = 3

\* execution i was started from the origin, three days before its
\* scheduling time
FromOrigin(i) ==
  /\ OriginThreeDaysAgo
  /\ runners[i].dailyTimestamps[1] =
       getTokenBirthdate(runners[i].scheduledMs, 3)

\* the step is the last progress update of execution i, every fetch of it
\* having succeeded and every point of it being in the store
FinishesAllWritten(i) ==
  /\ runners[i].pc = "update"
  /\ runners'[i].pc = "done"
  /\ \A k \in DOMAIN runners[i].dailyTimestamps :
       PointWritten(token_prices, i, runners[i].dailyTimestamps[k])

\* C22: Schedule on an empty store, the origin being 3 days before now,
\* creates a job with total_days = 4 (and answers estimated_days = 4), and
\* the execution of such a job, all fetches and writes having succeeded,
\* leaves its row with status completed and completed_days = 4
C22_ScenarioD ==
  [][/\ (ScheduleCall /\ ScheduleValid /\ token_prices = {}
           /\ OriginThreeDaysAgo) =>
          /\ StartsExecution
          /\ Len(runners'[Len(runners')].dailyTimestamps) = 4
          /\ runners'[Len(runners')].jobId = lastSchedule'.job_id
          /\ lastSchedule'.estimated_days = 4
          /\ \E j \in price_fetch_jobs' :
               j.job_id = lastSchedule'.job_id /\ j.total_days = 4
     /\ \A i \in DOMAIN runners :
          (FromOrigin(i) /\ FinishesAllWritten(i)) =>
             \E j \in price_fetch_jobs' :
               /\ j.job_id = runners[i].jobId
               /\ j.status = "completed"
               /\ j.completed_days = 4]_vars

\* C22 witness: an execution started from an origin 3 days before now is
\* done, its four points are stored, and its job row is completed 4 of 4
C22_Witness ==
  \E i \in DOMAIN runners : \E j \in price_fetch_jobs :
    /\ FromOrigin(i)
    /\ runners[i].pc = "done"
    /\ \A k \in DOMAIN runners[i].dailyTimestamps :
         PointWritten(token_prices, i, runners[i].dailyTimestamps[k])
    /\ j.job_id = runners[i].jobId
    /\ j.total_days = 4
    /\ j.completed_days = 4
    /\ j.status = "completed"

\* C23: a Schedule call with a non-empty enumeration adds a job row with
\* total_days = the number of enumerated timestamps, completed_days = 0 and
\* status pending, and answers estimated_days = that total_days
C23_JobCreated ==
  [][(ScheduleCall /\ ScheduleValid /\ Enumerated # <<>>) =>
       \E j \in price_fetch_jobs' \ price_fetch_jobs :
         /\ j.job_id = lastSchedule'.job_id
         /\ j.total_days = Len(Enumerated)
         /\ j.completed_days = 0
         /\ j.status = "pending"
         /\ lastSchedule'.estimated_days = j.total_days]_vars

(***************************************************************************)
(* The background executions under a fair event loop: a callback that can  *)
(* take its next step (a timer that has expired, an await that has         *)
(* settled) eventually takes it                                            *)
(***************************************************************************)
RunnerStep(i) ==
  /\ i \in DOMAIN runners
  /\ (RunnerChunk(i) \/ RunnerUpdate(i) \/ RunnerCatch(i))

FairSpec == Spec /\ \A i \in 1 .. MaxScheduleCalls : WF_vars(RunnerStep(i))

\* the row of the job of execution i has a terminal status
JobTerminal(i) ==
  \E j \in price_fetch_jobs :
    j.job_id = runners[i].jobId /\ j.status \in {"completed", "error"}

ExecutionEnded(i) == runners[i].pc \in {"done", "failed"}

C25_OneRunnerPerJob ==
  \A i, k \in DOMAIN runners :
    i # k => runners[i].jobId # runners[k].jobId

\* a step after which execution i is over without having fetched another
\* chunk and without a failure
StopsBetweenChunks(i) ==
  /\ Next
  /\ runners'[i].pc \notin {"chunk", "update", "catch", "failed"}
  /\ runners'[i].fetches = runners[i].fetches

\* C27: an execution that is between two chunks can be stopped there: a
\* step exists after which it is over and has started no further chunk
C27_Cancellable ==
  \A i \in DOMAIN runners :
    (runners[i].pc = "chunk" /\ runners[i].chunk > 1) =>
      ENABLED StopsBetweenChunks(i)

\* the store holds a point of (tok, net) for every day from the token's
\* origin, as looked up at time ms, to the day of ms
Covered(tok, net, ms) ==
  \A d \in targetDate(getTokenBirthdate(ms, birthLookbackDays))
             .. targetDate(ms \div 1000) :
    \E p \in KeyRows(token_prices, tok, net) : p.date = d

\* C28: after Schedule has answered that there is no work, and after an
\* execution has ended with its job completed, the store holds a point of
\* the (token, network) for every day from the token's origin to the time of
\* the Schedule call
C28_WholeHistory ==
  /\ (lastSchedule.job_id # <<>> /\ lastSchedule.job_id[1] = "no-work") =>
       Covered(lastSchedule.token[1], lastSchedule.network[1],
               lastSchedule.job_id[3])
  /\ \A i \in DOMAIN runners :
       (runners[i].pc = "done" /\ JobTerminal(i)) =>
         Covered(runners[i].token, runners[i].network,
                 runners[i].scheduledMs)

\* C29: when an execution starts the fetches of its chunk k it has made
\* k - 1 progress updates and k - 1 pacing delays, the clock is at least
\* k - 1 pacing delays after its start, and when it is done it has made one
\* delay less than it has chunks
C29_PacingDelay ==
  [][\A i \in DOMAIN runners :
       /\ StartsChunk(i) =>
            /\ runners[i].updates = runners[i].chunk - 1
            /\ runners[i].delays = runners[i].chunk - 1
            /\ nowMs' >= runners[i].scheduledMs + startDelayMs
                           + ((runners[i].chunk - 1) * chunkDelayMs)
       /\ runners'[i].pc = "done" =>
            runners'[i].delays = NumChunks(runners'[i].dailyTimestamps) - 1]_vars

\* C29 witness: an execution of two chunks is done with one pacing delay
C29_Witness ==
  \E i \in DOMAIN runners :
    /\ runners[i].pc = "done"
    /\ NumChunks(runners[i].dailyTimestamps) = 2
    /\ runners[i].fetches = 2
    /\ runners[i].delays = 1

\* C30: after a price query answered from the external source the store
\* holds a point of its (token, network) at its timestamp with the price
\* returned
C30_WriteBack ==
  [][(NextPriceCall /\ last'.source = "alchemy") =>
       \E p \in KeyRows(token_prices', last'.token[1], last'.network[1]) :
         /\ p.timestamp = last'.timestamp[1]
         /\ p.price = last'.price]_vars

(***************************************************************************)
(* Claims C31..C34                                                         *)
(***************************************************************************)
\* C31: stored points are immutable and never deleted: every step of the
\* price function, of the schedule function and of the background
\* executions leaves every row of the store in place, with its timestamp
\* and price
C31_Immutable == [][token_prices \subseteq token_prices']_vars

\* a price call went to the external source and attempted its insert on a
\* store that already held a point of that (token, network, date), and the
\* rows of before are all there
C31_Witness ==
  /\ "insert" \in last.effects
  /\ UniqueConflict(last.storeBefore,
                    PriceRow(last.token[1], last.network[1],
                             last.timestamp[1], toFixed8(last.fetched)))
  /\ last.storeBefore \subseteq token_prices

\* the condition of the specification's InvalidBracket on the arguments of a
\* call
InvalidBracket ==
  \/ interp.afterTimestamp <= interp.beforeTimestamp
  \/ ~(/\ interp.beforeTimestamp < interp.targetTimestamp
       /\ interp.targetTimestamp < interp.afterTimestamp)

\* C32: a call of the interpolator with afterTimestamp <= beforeTimestamp,
\* or with a target that is not strictly between the two, fails with
\* InvalidBracket and returns no price
C32_InvalidBracketFails ==
  (interp.called /\ InvalidBracket) =>
    /\ interp.outcome.thrown = "InvalidBracket"
    /\ interp.outcome.number = ""

====
